---- MODULE Spec2Model ----
(***************************************************************************)
(* The threaded timer service of SDL_timer.c (SDL_TimerData, the worker    *)
(* SDL_TimerThread, SDL_CreateTimer, SDL_RemoveTimer, SDL_InitTimers).     *)
(* Timer records are addresses 1..NRec, NULL is 0, and the three lists are *)
(* kept as head pointers plus the records' next fields, as in the code.    *)
(* Critical sections (spinlock, timermap_lock) are single steps; every     *)
(* atomic read or write of canceled outside a lock is a step of its own.   *)
(***************************************************************************)
EXTENDS Integers, Sequences, FiniteSets, TLC

\* ---- bounds of the model ----
NRec == 2
MaxId == 2
MaxTime == 1
NThreads == 2
WordBits == 3
NsPerMs == 2
DelayBits == 10
MaxClock == 500
MsPerSecond == 3
MaxFreq == 4
MaxPeriod == 2

NULL == 0
Recs == 1..NRec
Ids == 1..MaxId
Threads == 1..NThreads
\* Uint64 arithmetic, scaled to WordBits bits
Modulus == 2^WordBits
\* the applications run: one that adds and removes timers with memory for one
\* record, and one that only adds timers with memory for NRec records
Scenarios == {[memory |-> 1, cancelling |-> TRUE],
              [memory |-> NRec, cancelling |-> FALSE]}
\* intervals passed to SDL_AddTimerNS, and the values a callback returns
Intervals == {0, 1, Modulus - 1}
CallbackReturns == {0, 1}
\* the callbacks given to SDL_CreateTimer: callback_ms, callback_ns, both, neither
CallbackKinds == {"ms", "ns", "both", "none"}

VARIABLES
    init,           \* SDL_timer_data.init is SDL_INIT_STATUS_INITIALIZED
    active,         \* SDL_timer_data.active
    sem,            \* count of SDL_timer_data.sem
    timermap,       \* registry list, head first: <<[timerID, timer], ...>>
    pending,        \* SDL_timer_data.pending (head)
    freelist,       \* SDL_timer_data.freelist (head)
    timers,         \* SDL_timer_data.timers (head)
    alloc,          \* records obtained from SDL_malloc and not freed
    timerID, interval, scheduled, canceled, next,   \* fields of SDL_Timer
    callback,       \* per record: which of callback_ms, callback_ns are set
    nextID,         \* counter behind SDL_GetNextObjectID
    now,            \* value SDL_GetTicksNS returns
    wpc,            \* position of SDL_TimerThread
    wpending, current, freelist_head, freelist_tail, tick, delay,  \* its locals
    running,        \* the callback the worker is inside: "ms", "ns" or "none"
    wake,           \* time at which the worker's semaphore wait times out
    workers,        \* threads made by SDL_CreateThread and not yet joined
    th,             \* producer threads: position and locals
    memory,         \* records SDL_malloc hands out before it returns NULL
    cancelling,     \* whether the application calls SDL_RemoveTimer
    \* history variables, read by the properties only
    returned,       \* ids SDL_CreateTimer has returned
    removeCalled,   \* ids passed to SDL_RemoveTimer by a caller
    removedOK,      \* ids for which an SDL_RemoveTimer call has returned true
    stopped,        \* ids whose callback has returned 0
    firedSched,     \* per id: scheduled at its latest callback invocation, -1 if none
    late,           \* per id: invocations begun after a remove of it returned true
    quitDone,       \* ids returned before an SDL_QuitTimers call that has returned
    passRemoved,    \* removedOK as it was when the worker last took pending
    dp,             \* the thread inside SDL_DelayPrecise: position and locals
    lk,             \* SDL_timer_data.lock and timermap_lock: holders, and each thread's
                    \* position between the lock and unlock calls
    ticks           \* the tick statics, timer_period, the hint and the OS requests

shared == <<init, active, sem, timermap, pending, freelist, timers, alloc,
            timerID, callback, interval, scheduled, canceled, next, nextID>>
worker == <<wpc, wpending, current, running, freelist_head, freelist_tail, tick,
            delay, wake>>
env == <<memory, cancelling>>
history == <<returned, removeCalled, removedOK, stopped, firedSched, late, quitDone,
             passRemoved>>
vars == <<shared, now, worker, workers, th, history, env, dp, lk, ticks>>

Min(a, b) == IF a < b THEN a ELSE b

Idle == [pc |-> "idle", id |-> 0, timer |-> NULL, ent |-> NULL,
         inner |-> FALSE, ret |-> "none", dead |-> FALSE, cb |-> "ns",
         popped |-> FALSE]

\* ---- lists ----
RECURSIVE ChainN(_, _, _)
ChainN(nx, h, n) ==
    IF h = NULL \/ n = 0 THEN <<>> ELSE <<h>> \o ChainN(nx, nx[h], n - 1)

\* the records linked from head h, in order
Chain(h) == ChainN(next, h, NRec + 1)

RECURSIVE ChainTo(_, _, _)
ChainTo(h, t, n) ==
    IF h = NULL \/ n = 0 THEN <<>>
    ELSE IF h = t THEN <<h>> ELSE <<h>> \o ChainTo(next[h], t, n - 1)

\* the worker's local freelist: freelist_head up to freelist_tail
LocalFree == ChainTo(freelist_head, freelist_tail, NRec + 1)

Range(s) == {s[i] : i \in 1..Len(s)}

Without(s, r) == SelectSeq(s, LAMBDA x : x # r)

\* ---- SDL_AddTimerInternal ----
\* the loop condition that stops the walk: curr is scheduled later than timer
\* (InsertBefore; the two before it are faulty variants the properties must reject)
InsertBeforeEqual(sc, st) == sc >= st
InsertUnsorted(sc, st) == sc < st
InsertBefore(sc, st) == sc > st

RECURSIVE FindSlot(_, _, _, _, _)
FindSlot(nx, sch, prev, curr, timer) ==
    IF curr # NULL /\ ~InsertBefore(sch[curr], sch[timer])
    THEN FindSlot(nx, sch, curr, nx[curr], timer)
    ELSE [prev |-> prev, curr |-> curr]

\* the insertion (AddTimerInternal; AddTimerAtHead is the faulty variant that
\* does not walk the list)
AddTimerAtHead(nx, tm, sch, timer) ==
    [next |-> [nx EXCEPT ![timer] = tm], timers |-> timer]

AddTimerInternal(nx, tm, sch, timer) ==
    LET s == FindSlot(nx, sch, NULL, tm, timer)
        nx1 == IF s.prev # NULL THEN [nx EXCEPT ![s.prev] = timer] ELSE nx
        tm1 == IF s.prev # NULL THEN tm ELSE timer
    IN [next |-> [nx1 EXCEPT ![timer] = s.curr], timers |-> tm1]

\* the loop "while (pending) { current = pending; pending = pending->next; ... }"
RECURSIVE MergePending(_, _, _, _)
MergePending(p, nx, tm, sch) ==
    IF p = NULL THEN [next |-> nx, timers |-> tm]
    ELSE LET r == AddTimerInternal(nx, tm, sch, p)
         IN MergePending(nx[p], r.next, r.timers, sch)

\* ---- the registry ----
EntryIndex(id) ==
    IF \E i \in 1..Len(timermap) : timermap[i].timerID = id
    THEN CHOOSE i \in 1..Len(timermap) :
            /\ timermap[i].timerID = id
            /\ \A j \in 1..(i - 1) : timermap[j].timerID # id
    ELSE 0

\* the registry without its i-th entry (Unlink; UnlinkNothing is the faulty variant
\* that leaves the entry in place)
UnlinkNothing(i) == timermap

Unlink(i) == [j \in 1..(Len(timermap) - 1) |->
                IF j < i THEN timermap[j] ELSE timermap[j + 1]]

\* no SDL_DelayPrecise call has been made
NotDelaying ==
    [pc |-> "idle", entry |-> 0, ns |-> 0, current_value |-> 0, target_value |-> 0,
     target_sleep_ns |-> 0, max_overshoot_ns |-> 0, current_sleep_ns |-> 0,
     max_sleep_ns |-> 0]

\* the threads that take the locks: the callers and, last, the worker
Worker == NThreads + 1
Holders == Threads \cup {Worker}

\* both locks free, no caller inside SDL_CreateTimer or SDL_RemoveTimer, no worker
NotLocking ==
    [lock |-> NULL, timermap_lock |-> NULL,
     pc |-> [h \in Holders |-> IF h = Worker THEN "none" ELSE "idle"],
     inner |-> [h \in Holders |-> FALSE]]

\* tick_start and the scalers zero, timer_period 0, no hint callback, hint unset,
\* no timeBeginPeriod request outstanding, the performance counter at 0
\* (freq is SDL_GetPerformanceFrequency; applied, ended and last record the last
\* period given to SDL_SetSystemTimerResolutionMS, the timeEndPeriod calls made
\* and the last call; starting_value, value and result are the locals of the
\* last SDL_GetTicksNS or SDL_GetTicks call: difference, product, return value)
NoTicks ==
    [tick_start |-> 0, tick_numerator_ns |-> 0, tick_denominator_ns |-> 0,
     tick_numerator_ms |-> 0, tick_denominator_ms |-> 0, timer_period |-> 0,
     hooked |-> FALSE, hint |-> -1, os |-> <<>>, counter |-> 0, freq |-> 1,
     applied |-> 0, ended |-> 0, last |-> "none",
     starting_value |-> 0, value |-> 0, result |-> 0]

\* the zero-initialised SDL_timer_data
Zeroed ==
    /\ init = FALSE /\ active = FALSE /\ sem = 0
    /\ timermap = <<>> /\ pending = NULL /\ freelist = NULL /\ timers = NULL
    /\ alloc = {}
    /\ timerID = [r \in Recs |-> 0]
    /\ callback = [r \in Recs |-> "ns"]
    /\ interval = [r \in Recs |-> 0]
    /\ scheduled = [r \in Recs |-> 0]
    /\ canceled = [r \in Recs |-> FALSE]
    /\ next = [r \in Recs |-> NULL]
    /\ nextID = 1
    /\ wpc = "none" /\ wpending = NULL /\ current = NULL /\ running = "none"
    /\ freelist_head = NULL /\ freelist_tail = NULL
    /\ tick = 0 /\ delay = 0 /\ wake = 0
    /\ workers = 0
    /\ th = [t \in Threads |-> Idle]
    /\ returned = {} /\ removeCalled = {} /\ stopped = {} /\ removedOK = {}
    /\ firedSched = [i \in Ids |-> -1]
    /\ late = [i \in Ids |-> 0]
    /\ quitDone = {}
    /\ passRemoved = {}

\* the state before any call
Start ==
    /\ Zeroed
    /\ now = 0
    /\ dp = NotDelaying
    /\ lk = NotLocking
    /\ ticks = NoTicks

Init ==
    /\ Start
    /\ \E sc \in Scenarios : memory = sc.memory /\ cancelling = sc.cancelling

\* the clock advances
Tick ==
    /\ now < MaxTime
    /\ now' = now + 1
    /\ UNCHANGED <<shared, worker, th, history, env, lk, ticks, workers, dp>>

\* ---- SDL_InitTimers ----
\* the service comes up: mutex and semaphore created, worker spawned
Started ==
    /\ init' = TRUE
    /\ active' = TRUE
    /\ sem' = 0
    /\ wpc' = "maint"
    /\ wpending' = NULL /\ current' = NULL /\ running' = "none"
    /\ freelist_head' = NULL /\ freelist_tail' = NULL
    /\ tick' = 0 /\ delay' = 0 /\ wake' = 0
    /\ workers' = workers + 1

\* "if (!SDL_ShouldInit(&data->init)) return true" (ShouldInit; ShouldInitAlways
\* is the faulty variant that initializes on every call)
ShouldInitAlways == TRUE
ShouldInit == ~init

\* a thread is inside SDL_QuitTimers: SDL_ShouldInit makes other callers wait
Quitting == \E u \in Threads : th[u].pc = "q_join"

InitTimers ==
    /\ ~Quitting
    /\ IF ShouldInit THEN Started ELSE UNCHANGED <<init, active, sem, worker, workers>>
    /\ UNCHANGED <<timermap, pending, freelist, timers, alloc, timerID, callback, interval,
                   scheduled, canceled, next, nextID, now, th, history, env, lk, ticks, dp>>

\* ---- SDL_QuitTimers ----
\* SDL_ShouldQuit, then "active = false" and the semaphore post for the worker;
\* on a service that is not initialized the call returns at once
QuitTimers(t) ==
    /\ th[t].pc = "idle"
    /\ ~Quitting
    /\ IF init
       THEN /\ init' = FALSE
            /\ active' = FALSE
            /\ sem' = sem + 1
            /\ th' = [th EXCEPT ![t] = [Idle EXCEPT !.pc = "q_join"]]
       ELSE /\ th' = [th EXCEPT ![t] = [Idle EXCEPT !.ret = "quit"]]
            /\ UNCHANGED <<init, active, sem>>
    /\ UNCHANGED <<timermap, pending, freelist, timers, alloc, timerID, callback, interval,
                   scheduled, canceled, next, nextID, now, worker, history, env, lk, ticks, workers, dp>>

\* the records the clean-up loops free: those on timers and on freelist
QuitFreed == Range(Chain(timers)) \cup Range(Chain(freelist))

\* SDL_WaitThread has returned: the semaphore is destroyed, the records on timers
\* and freelist and the registry entries are freed, the state is set uninitialized
QuitJoin(t) ==
    /\ th[t].pc = "q_join"
    /\ wpc = "exited"
    /\ wpc' = "none"
    /\ sem' = 0
    /\ alloc' = alloc \ QuitFreed
    /\ timers' = NULL
    /\ freelist' = NULL
    /\ timermap' = <<>>
    /\ workers' = workers - 1
    /\ th' = [th EXCEPT ![t] = [Idle EXCEPT !.ret = "quit"]]
    /\ quitDone' = quitDone \cup returned
    /\ UNCHANGED <<init, active, pending, timerID, callback, interval, scheduled,
                   canceled, next, nextID, now, wpending, current, running,
                   freelist_head, freelist_tail, tick, delay, wake, returned,
                   removeCalled, removedOK, stopped, firedSched, late, passRemoved,
                   env, lk, ticks, dp>>

\* ---- SDL_RemoveTimer ----
\* "if (!id)" (InvalidId; InvalidIdNever is the faulty variant without the check)
InvalidIdNever(id) == FALSE
InvalidId(id) == id = 0

\* the thread after SDL_RemoveTimer has returned r: back in SDL_CreateTimer when
\* the call came from there, else idle with the result
RemoveDone(s, r) ==
    IF s.inner
    THEN [Idle EXCEPT !.pc = "c_fill", !.timer = s.timer, !.cb = s.cb,
                      !.popped = TRUE]
    ELSE [Idle EXCEPT !.ret = r]

\* a caller enters SDL_RemoveTimer(id)
RemoveTimer(t, id) ==
    /\ cancelling
    /\ th[t].pc = "idle"
    /\ th' = [th EXCEPT ![t] = [Idle EXCEPT !.pc = "r_find", !.id = id,
                  !.dead = (id \in stopped \/ id \in removedOK)]]
    /\ removeCalled' = IF id \in Ids THEN removeCalled \cup {id} ELSE removeCalled
    /\ UNCHANGED <<shared, now, worker, returned, removedOK, stopped, quitDone, passRemoved, firedSched, late, env, lk, ticks, workers, dp>>

\* the id check, then "Find the timer": under timermap_lock, unlink the first
\* entry with this id
RemoveFind(t) ==
    /\ th[t].pc = "r_find"
    /\ LET s == th[t]
           i == EntryIndex(s.id)
       IN IF InvalidId(s.id)
          THEN /\ th' = [th EXCEPT ![t] = RemoveDone(s, "InvalidParam")]
               /\ UNCHANGED timermap
          ELSE IF i = 0
          THEN /\ th' = [th EXCEPT ![t] = RemoveDone(s, "NotFound")]
               /\ UNCHANGED timermap
          ELSE /\ timermap' = Unlink(i)
               /\ th' = [th EXCEPT ![t] = [s EXCEPT !.pc = "r_get",
                                                    !.ent = timermap[i].timer]]
    /\ UNCHANGED <<init, active, sem, pending, freelist, timers, alloc, timerID, callback,
                   interval, scheduled, canceled, next, nextID, now, worker, history, env, lk, ticks, workers, dp>>

\* "if (!SDL_GetAtomicInt(&entry->timer->canceled))"
RemoveGet(t) ==
    /\ th[t].pc = "r_get"
    /\ th' = [th EXCEPT ![t] = IF ~canceled[th[t].ent]
                               THEN [th[t] EXCEPT !.pc = "r_set"]
                               ELSE RemoveDone(th[t], "NotFound")]
    /\ UNCHANGED <<shared, now, worker, history, env, lk, ticks, workers, dp>>

\* "SDL_SetAtomicInt(&entry->timer->canceled, 1); canceled = true;" and the return
\* (Cancel; CancelSkipped is the faulty variant that leaves the flag alone)
CancelSkipped(c, r) == c
Cancel(c, r) == [c EXCEPT ![r] = TRUE]

RemoveSet(t) ==
    /\ th[t].pc = "r_set"
    /\ canceled' = Cancel(canceled, th[t].ent)
    /\ removedOK' = removedOK \cup {th[t].id}
    /\ th' = [th EXCEPT ![t] = RemoveDone(th[t], "true")]
    /\ UNCHANGED <<init, active, sem, timermap, pending, freelist, timers, alloc,
                   timerID, callback, interval, scheduled, next, nextID, now, worker,
                   returned, removeCalled, stopped, quitDone, passRemoved, firedSched, late, env, lk, ticks, workers, dp>>

\* ---- SDL_CreateTimer ----
\* "timer->scheduled = SDL_GetTicksNS() + timer->interval" in Uint64
Deadline(t0, iv) == (t0 + iv) % Modulus

\* "if (!callback_ms && !callback_ns)" (NoCallback; NotExactlyOne is the faulty
\* variant that also rejects a call with both callbacks)
NotExactlyOne(cb) == cb \in {"none", "both"}
NoCallback(cb) == cb = "none"

\* entry: the callback check, SDL_CheckInitTimers, then a record from the freelist
\* or from SDL_malloc
CreateTimer(t, cb) ==
    /\ th[t].pc = "idle"
    /\ NoCallback(cb) \/ ~Quitting
    /\ nextID + Cardinality({u \in Threads : th[u].pc = "c_fill" \/ th[u].inner}) <= MaxId
    /\ IF NoCallback(cb)
       THEN /\ th' = [th EXCEPT ![t] = [Idle EXCEPT !.ret = "InvalidParam", !.cb = cb]]
            /\ UNCHANGED <<init, active, sem, worker, workers, freelist, alloc>>
       ELSE /\ IF ShouldInit THEN Started
                             ELSE UNCHANGED <<init, active, sem, worker, workers>>
            /\ IF freelist # NULL
               THEN /\ freelist' = next[freelist]
                    /\ th' = [th EXCEPT ![t] = [Idle EXCEPT !.pc = "r_find",
                                                   !.id = timerID[freelist],
                                                   !.timer = freelist, !.inner = TRUE,
                                                   !.cb = cb, !.popped = TRUE]]
                    /\ UNCHANGED alloc
               ELSE IF Cardinality(alloc) >= memory
               THEN /\ th' = [th EXCEPT ![t] = [Idle EXCEPT !.ret = "zero"]]
                    /\ UNCHANGED <<freelist, alloc>>
               ELSE LET r == CHOOSE x \in Recs \ alloc : \A y \in Recs \ alloc : x <= y
                    IN /\ alloc' = alloc \cup {r}
                       /\ th' = [th EXCEPT ![t] = [Idle EXCEPT !.pc = "c_fill",
                                                      !.timer = r, !.cb = cb]]
                       /\ UNCHANGED freelist
    /\ UNCHANGED <<timermap, pending, timers, timerID, callback, interval, scheduled, canceled,
                   next, nextID, now, history, env, lk, ticks, dp>>

\* the record's fields: fresh id, interval, deadline, canceled cleared
CreateFill(t, iv) ==
    /\ th[t].pc = "c_fill"
    /\ LET r == th[t].timer
       IN /\ timerID' = [timerID EXCEPT ![r] = nextID]
          /\ callback' = [callback EXCEPT ![r] = th[t].cb]
          /\ interval' = [interval EXCEPT ![r] = iv]
          /\ scheduled' = [scheduled EXCEPT ![r] = Deadline(now, iv)]
          /\ canceled' = [canceled EXCEPT ![r] = FALSE]
    /\ nextID' = nextID + 1
    /\ th' = [th EXCEPT ![t] = [@ EXCEPT !.pc = "c_entry", !.id = nextID]]
    /\ UNCHANGED <<init, active, sem, timermap, pending, freelist, timers, alloc,
                   next, now, worker, history, env, lk, ticks, workers, dp>>

\* "SDL_free(timer)" when the entry cannot be allocated (FreeRecord; KeepRecord is
\* the faulty variant that leaks it)
KeepRecord(a, r) == a
FreeRecord(a, r) == a \ {r}

\* the registry entry: SDL_malloc (ok tells whether it succeeds), then the entry
\* is prepended under timermap_lock; on failure the record is freed and 0 returned
CreateEntry(t, ok) ==
    /\ th[t].pc = "c_entry"
    /\ IF ok
       THEN /\ timermap' = <<[timerID |-> th[t].id, timer |-> th[t].timer]>> \o timermap
            /\ th' = [th EXCEPT ![t] = [@ EXCEPT !.pc = "c_pub"]]
            /\ UNCHANGED alloc
       ELSE /\ alloc' = FreeRecord(alloc, th[t].timer)
            /\ th' = [th EXCEPT ![t] = [Idle EXCEPT !.ret = "zero",
                                                    !.popped = th[t].popped]]
            /\ UNCHANGED timermap
    /\ UNCHANGED <<init, active, sem, pending, freelist, timers, timerID, callback,
                   interval, scheduled, canceled, next, nextID, now, worker, history, env, lk, ticks, workers, dp>>

\* "Add the timer to the pending list for the timer thread"
CreatePublish(t) ==
    /\ th[t].pc = "c_pub"
    /\ next' = [next EXCEPT ![th[t].timer] = pending]
    /\ pending' = th[t].timer
    /\ th' = [th EXCEPT ![t] = [@ EXCEPT !.pc = "c_post"]]
    /\ UNCHANGED <<init, active, sem, timermap, freelist, timers, alloc, timerID, callback,
                   interval, scheduled, canceled, nextID, now, worker, history, env, lk, ticks, workers, dp>>

\* what "return entry->timerID" can read: the id, or anything once a concurrent
\* SDL_RemoveTimer has freed the entry
EntryRead(id) ==
    IF EntryIndex(id) # 0 THEN {id} ELSE 0..MaxId

\* SDL_SignalSemaphore (Signal; SignalSkipped is the faulty variant that does
\* not post)
SignalSkipped(s) == s
Signal(s) == s + 1

\* "Wake up the timer thread if necessary", and the return of the id
CreatePost(t) ==
    /\ th[t].pc = "c_post"
    /\ sem' = Signal(sem)
    /\ \E v \in EntryRead(th[t].id) : returned' = returned \cup ({v} \ {0})
    /\ th' = [th EXCEPT ![t] = [Idle EXCEPT !.ret = "id"]]
    /\ UNCHANGED <<init, active, timermap, pending, freelist, timers, alloc, timerID, callback,
                   interval, scheduled, canceled, next, nextID, now, worker,
                   removeCalled, removedOK, stopped, quitDone, passRemoved, firedSched, late, env, lk, ticks, workers, dp>>

\* ---- SDL_TimerThread ----
\* "data->pending = NULL" once the worker has the list (Taken; TakenKept is the
\* faulty variant that leaves the head in place)
TakenKept(p) == p
Taken(p) == NULL

\* "Pending and freelist maintenance", under the spinlock
TimerThreadMaintain ==
    /\ wpc = "maint"
    /\ wpending' = pending
    /\ pending' = Taken(pending)
    /\ IF freelist_head # NULL
       THEN /\ next' = [next EXCEPT ![freelist_tail] = freelist]
            /\ freelist' = freelist_head
       ELSE UNCHANGED <<next, freelist>>
    /\ wpc' = "merge"
    /\ passRemoved' = removedOK
    /\ UNCHANGED <<init, active, sem, timermap, timers, alloc, timerID, callback, interval,
                   scheduled, canceled, nextID, now, current, running, freelist_head,
                   freelist_tail, tick, delay, wake, th, returned,
                   removeCalled, removedOK, stopped, firedSched, late, quitDone, env, lk, ticks,
                   workers, dp>>

\* "Sort the pending timers into our list", the active check and the tick sample
TimerThreadMerge ==
    /\ wpc = "merge"
    /\ LET r == MergePending(wpending, next, timers, scheduled)
       IN /\ next' = r.next
          /\ timers' = r.timers
    /\ wpending' = NULL
    /\ freelist_head' = NULL
    /\ freelist_tail' = NULL
    /\ IF ~active
       THEN /\ wpc' = "exited"
            /\ UNCHANGED <<tick, delay>>
       ELSE /\ delay' = Modulus - 1
            /\ tick' = now
            /\ wpc' = "fire"
    /\ UNCHANGED <<init, active, sem, timermap, pending, freelist, alloc, timerID, callback,
                   interval, scheduled, canceled, nextID, now, current, running, wake, th,
                   history, env, lk, ticks, workers, dp>>

\* "if (tick < current->scheduled)" (NotDue; NotDueNever fires everything at once)
NotDueNever(tk, sch) == FALSE
NotDue(tk, sch) == tk < sch

\* "if (SDL_GetAtomicInt(&current->canceled))" (SeesCanceled; SeesCanceledNever
\* is the faulty variant that ignores the flag)
SeesCanceledNever(c) == FALSE
SeesCanceled(c) == canceled[c]

\* the else branch of "if (interval > 0)": append to the local freelist
Recycle(nx, fh, ft, c) ==
    [head |-> IF fh = NULL THEN c ELSE fh,
     next |-> IF ft # NULL THEN [nx EXCEPT ![ft] = c] ELSE nx,
     tail |-> c]

\* head of "while (data->timers)": leave the loop, or detach the head and read
\* its canceled flag; a canceled record goes to the local freelist
TimerThreadFire ==
    /\ wpc = "fire"
    /\ IF timers = NULL
       THEN /\ wpc' = "wait"
            /\ UNCHANGED <<timers, current, running, delay, next, freelist_head,
                           freelist_tail, canceled>>
       ELSE IF NotDue(tick, scheduled[timers])
       THEN /\ delay' = scheduled[timers] - tick
            /\ wpc' = "wait"
            /\ UNCHANGED <<timers, current, running, next, freelist_head, freelist_tail,
                           canceled>>
       ELSE /\ timers' = next[timers]
            /\ IF SeesCanceled(timers)
               THEN LET f == Recycle(next, freelist_head, freelist_tail, timers)
                    IN /\ freelist_head' = f.head
                       /\ freelist_tail' = f.tail
                       /\ next' = f.next
                       /\ canceled' = [canceled EXCEPT ![timers] = TRUE]
                       /\ wpc' = "fire"
                       /\ UNCHANGED <<current, running, delay>>
               ELSE /\ current' = timers
                    /\ wpc' = "call"
                    /\ UNCHANGED <<running, delay, next, freelist_head, freelist_tail,
                                   canceled>>
    /\ UNCHANGED <<init, active, sem, timermap, pending, freelist, alloc, timerID, callback,
                   interval, scheduled, nextID, now, wpending, tick, wake, th,
                   history, env, lk, ticks, workers, dp>>

\* "if (current->callback_ms)": the millisecond callback is preferred
PicksMs(k) == k \in {"ms", "both"}

\* SDL_MS_TO_NS, with NsPerMs nanoseconds to the millisecond
MsToNs(ms) == ms * NsPerMs

\* the callback is entered: current->callback_ms(...) or current->callback_ns(...)
TimerThreadCall ==
    /\ wpc = "call"
    /\ wpc' = "incb"
    /\ running' = IF PicksMs(callback[current]) THEN "ms" ELSE "ns"
    /\ LET id == timerID[current]
       IN /\ firedSched' = [firedSched EXCEPT ![id] = scheduled[current]]
          /\ late' = [late EXCEPT ![id] = IF id \in removedOK THEN Min(@ + 1, 2) ELSE @]
    /\ UNCHANGED <<shared, now, wpending, current, freelist_head, freelist_tail,
                   tick, delay, wake, th, returned, removeCalled, removedOK, stopped,
                   quitDone, passRemoved, env, lk, ticks, workers, dp>>

\* "if (interval > 0)" (Reschedule; RescheduleAlways also requeues on 0)
RescheduleAlways(iv) == TRUE
Reschedule(iv) == iv > 0

\* the value the worker takes from a callback that returned ret
Returned(kind, ret) == IF kind = "ms" THEN MsToNs(ret) ELSE ret

\* "current->scheduled = tick + interval": the base of the new deadline
\* (PassTick; PreviousDeadline is the faulty variant that adds to the old deadline)
PreviousDeadline(tk, sch) == sch
PassTick(tk, sch) == tk

\* the callback returns ret: reschedule from tick, or recycle and mark canceled
TimerThreadReturn(ret) ==
    /\ wpc = "incb"
    /\ IF Reschedule(Returned(running, ret))
       THEN LET sch == [scheduled EXCEPT ![current] =
                            Deadline(PassTick(tick, scheduled[current]),
                                     Returned(running, ret))]
                r == AddTimerInternal(next, timers, sch, current)
            IN /\ interval' = [interval EXCEPT ![current] = Returned(running, ret)]
               /\ scheduled' = sch
               /\ next' = r.next
               /\ timers' = r.timers
               /\ UNCHANGED <<freelist_head, freelist_tail, canceled>>
       ELSE LET f == Recycle(next, freelist_head, freelist_tail, current)
            IN /\ freelist_head' = f.head
               /\ freelist_tail' = f.tail
               /\ next' = f.next
               /\ canceled' = [canceled EXCEPT ![current] = TRUE]
               /\ UNCHANGED <<interval, scheduled, timers>>
    /\ stopped' = IF ret = 0 THEN stopped \cup {timerID[current]} ELSE stopped
    /\ current' = NULL
    /\ running' = "none"
    /\ wpc' = "fire"
    /\ UNCHANGED <<init, active, sem, timermap, pending, freelist, alloc, timerID, callback,
                   nextID, now, wpending, tick, delay, wake, th, returned,
                   removeCalled, removedOK, firedSched, late, quitDone, passRemoved, env, lk, ticks, workers, dp>>

\* "Adjust the delay based on processing time" and the start of the wait
TimerThreadWait ==
    /\ wpc = "wait"
    /\ LET elapsed == (now - tick) % Modulus
           d == IF elapsed > delay THEN 0 ELSE delay - elapsed
       IN wake' = Min(now + d, MaxTime + 1)
    /\ tick' = 0
    /\ delay' = 0
    /\ wpc' = "sem"
    /\ UNCHANGED <<shared, now, wpending, current, running, freelist_head, freelist_tail,
                   th, history, env, lk, ticks, workers, dp>>

\* SDL_WaitSemaphoreTimeoutNS returns with a token
SemaphoreAcquired ==
    /\ wpc = "sem"
    /\ sem > 0
    /\ sem' = sem - 1
    /\ wake' = 0
    /\ wpc' = "maint"
    /\ UNCHANGED <<init, active, timermap, pending, freelist, timers, alloc, timerID, callback,
                   interval, scheduled, canceled, next, nextID, now, wpending,
                   current, running, freelist_head, freelist_tail, tick, delay, th, history, env, lk, ticks, workers, dp>>

\* SDL_WaitSemaphoreTimeoutNS returns because the timeout has passed
SemaphoreTimedOut ==
    /\ wpc = "sem"
    /\ now >= wake
    /\ wake' = 0
    /\ wpc' = "maint"
    /\ UNCHANGED <<shared, now, wpending, current, running, freelist_head, freelist_tail,
                   tick, delay, th, history, env, lk, ticks, workers, dp>>

Next ==
    \/ Tick
    \/ InitTimers
    \/ \E t \in Threads : \E id \in 0..MaxId : RemoveTimer(t, id)
    \/ \E t \in Threads : RemoveFind(t)
    \/ \E t \in Threads : RemoveGet(t)
    \/ \E t \in Threads : RemoveSet(t)
    \/ \E t \in Threads : CreateTimer(t, "ns")
    \/ \E t \in Threads : \E iv \in Intervals : CreateFill(t, iv)
    \/ \E t \in Threads : CreateEntry(t, TRUE)
    \/ \E t \in Threads : CreatePublish(t)
    \/ \E t \in Threads : CreatePost(t)
    \/ TimerThreadMaintain
    \/ TimerThreadMerge
    \/ TimerThreadFire
    \/ TimerThreadCall
    \/ \E ret \in CallbackReturns : TimerThreadReturn(ret)
    \/ TimerThreadWait
    \/ SemaphoreAcquired
    \/ SemaphoreTimedOut

Spec == Init /\ [][Next]_vars

\* ---- the running service under a fair scheduler ----
\* An application that only adds timers, with memory for NRec records; the worker
\* thread is scheduled whenever it can take a step and callbacks return.
WorkerStep ==
    \/ TimerThreadMaintain
    \/ TimerThreadMerge
    \/ TimerThreadFire
    \/ TimerThreadCall
    \/ \E ret \in CallbackReturns : TimerThreadReturn(ret)
    \/ TimerThreadWait
    \/ SemaphoreAcquired
    \/ SemaphoreTimedOut

WakeInit ==
    /\ Start
    /\ memory = NRec /\ cancelling = FALSE

WakeNext ==
    \/ Tick
    \/ \E t \in Threads : RemoveFind(t)
    \/ \E t \in Threads : RemoveGet(t)
    \/ \E t \in Threads : CreateTimer(t, "ns")
    \/ \E t \in Threads : \E iv \in Intervals : CreateFill(t, iv)
    \/ \E t \in Threads : CreateEntry(t, TRUE)
    \/ \E t \in Threads : CreatePublish(t)
    \/ \E t \in Threads : CreatePost(t)
    \/ WorkerStep

WakeSpec == WakeInit /\ [][WakeNext]_vars /\ WF_vars(WorkerStep)

\* ---- callbacks that return any Uint64 ----
\* The same application with callback_ns free to return the largest Uint64 as
\* the next interval ("interval = current->callback_ns(...)").
PassReturns == CallbackReturns \cup {Modulus - 1}

PassStep == WorkerStep \/ (\E ret \in PassReturns : TimerThreadReturn(ret))

PassNext == WakeNext \/ PassStep

PassSpec == WakeInit /\ [][PassNext]_vars /\ WF_vars(PassStep)

\* ---- the service with its whole life cycle ----
\* An application that creates timers with any combination of callbacks, may run
\* out of memory for registry entries, and shuts the service down and brings it
\* up again; it calls SDL_QuitTimers only while no other call is in progress.
QuitWhenQuiet(t) ==
    /\ \A u \in Threads : th[u].pc = "idle"
    /\ QuitTimers(t)

LifeInit ==
    /\ Start
    /\ memory = 1 /\ cancelling = FALSE

LifeNext ==
    \/ Tick
    \/ InitTimers
    \/ \E t \in Threads : QuitWhenQuiet(t)
    \/ \E t \in Threads : QuitJoin(t)
    \/ \E t \in Threads : RemoveFind(t)
    \/ \E t \in Threads : RemoveGet(t)
    \/ \E t \in Threads : \E cb \in CallbackKinds : CreateTimer(t, cb)
    \/ \E t \in Threads : \E iv \in Intervals : CreateFill(t, iv)
    \/ \E t \in Threads : \E ok \in BOOLEAN : CreateEntry(t, ok)
    \/ \E t \in Threads : CreatePublish(t)
    \/ \E t \in Threads : CreatePost(t)
    \/ TimerThreadMaintain
    \/ TimerThreadMerge
    \/ TimerThreadFire
    \/ TimerThreadCall
    \/ \E ret \in CallbackReturns : TimerThreadReturn(ret)
    \/ TimerThreadWait
    \/ SemaphoreAcquired
    \/ SemaphoreTimedOut

LifeSpec == LifeInit /\ [][LifeNext]_vars

\* ---- SDL_DelayPrecise ----
\* One thread calls SDL_DelayPrecise(ns) once; the timer service is not used.
\* Uint64 arithmetic is scaled to DelayBits bits. The clock is followed up to
\* MaxClock, where it saturates: the requests are those whose deadline either
\* lies within MaxClock or is beyond the largest Uint64.
DelayModulus == 2^DelayBits
SHORT_SLEEP_NS == 1 * NsPerMs
EntryTimes == {0, 1, 7}
Requests == {0, 1, 3, 4, 5, 9, 50, 230, 400, DelayModulus - 1}
\* what a sleep or a pause takes beyond the time requested
Oversleeps == {0, 1, 2, 7, 45, 300}

U64(x) == x % DelayModulus

\* SDL_SYS_DelayNS(req) followed by SDL_GetTicksNS(): the clock after the sleep
Slept(req, over) == Min(MaxClock, now + req + over)

\* "const Uint64 target_value = current_value + ns"
TargetValue(cv, ns) == U64(cv + ns)

\* "current_value < target_value" of step 5 (Spins; SpinsUntilEqual is the
\* faulty variant that waits for the clock to hit the deadline exactly)
SpinsUntilEqual(cv, tv) == cv # tv
Spins(cv, tv) == cv < tv

\* the horizon test of step 1
InHorizon(cv, ts, tv) == U64(cv + ts + 10 * SHORT_SLEEP_NS) < tv
PastHorizon(cv, ts, tv) == U64(cv + ts + 10 * SHORT_SLEEP_NS) > tv

\* the for loop of step 1: target_sleep_ns divided by 10 until it fits
RECURSIVE Shrink(_, _, _)
Shrink(ts, cv, tv) ==
    IF ts > SHORT_SLEEP_NS /\ PastHorizon(cv, ts, tv)
    THEN Shrink(ts \div 10, cv, tv)
    ELSE ts

\* entry to step 2: "max_sleep_ns = SHORT_SLEEP_NS", plus max_overshoot_ns when
\* that is smaller (EnterStep2; EnterStep2Capped is the faulty variant that adds
\* SHORT_SLEEP_NS for a larger max_overshoot_ns)
EnterStep2Capped(d) ==
    [d EXCEPT !.pc = "step2",
              !.max_sleep_ns = SHORT_SLEEP_NS + Min(d.max_overshoot_ns, SHORT_SLEEP_NS)]

EnterStep2(d) ==
    [d EXCEPT !.pc = "step2",
              !.max_sleep_ns = IF d.max_overshoot_ns < SHORT_SLEEP_NS
                               THEN SHORT_SLEEP_NS + d.max_overshoot_ns
                               ELSE SHORT_SLEEP_NS]

DelayUnchanged == UNCHANGED <<shared, worker, workers, th, history, env, lk, ticks>>

\* the call: clock read, deadline, and the choice of the first step
DelayPrecise(ns) ==
    /\ dp.pc = "idle"
    /\ now + ns <= MaxClock \/ now + ns >= DelayModulus
    /\ LET d == [dp EXCEPT !.entry = now, !.ns = ns, !.current_value = now,
                           !.target_value = TargetValue(now, ns)]
       IN dp' = IF ns <= 2 * SHORT_SLEEP_NS
                THEN [d EXCEPT !.pc = "step4"]
                ELSE IF ns \div 10 >= 10 * SHORT_SLEEP_NS
                THEN [d EXCEPT !.pc = "step1", !.target_sleep_ns = ns \div 10,
                               !.current_sleep_ns = (ns \div 10) - SHORT_SLEEP_NS]
                ELSE EnterStep2([d EXCEPT !.target_sleep_ns = ns \div 10])
    /\ UNCHANGED now
    /\ DelayUnchanged

\* one test of the step 1 loop and, when it holds, one pass through its body
DelayStep1(over) ==
    /\ dp.pc = "step1"
    /\ IF /\ dp.current_sleep_ns >= 10 * SHORT_SLEEP_NS
          /\ InHorizon(dp.current_value, dp.target_sleep_ns, dp.target_value)
       THEN /\ now' = Slept(dp.current_sleep_ns, over)
            /\ IF now' >= dp.target_value
               THEN dp' = [dp EXCEPT !.pc = "returned"]
               ELSE LET overshoot_ns == U64(U64(now' - dp.current_value) - dp.current_sleep_ns)
                        mo1 == IF overshoot_ns > dp.max_overshoot_ns
                               THEN overshoot_ns ELSE dp.max_overshoot_ns
                        mo2 == IF mo1 >= dp.target_sleep_ns THEN 0 ELSE mo1
                        past == PastHorizon(now', dp.target_sleep_ns, dp.target_value)
                        ts == IF past
                              THEN Shrink(U64(dp.target_value - now') \div 10, now',
                                          dp.target_value)
                              ELSE dp.target_sleep_ns
                        mo3 == IF past /\ mo2 >= ts THEN 0 ELSE mo2
                        d == [dp EXCEPT !.current_value = now', !.target_sleep_ns = ts]
                    IN dp' = IF past /\ ts <= SHORT_SLEEP_NS
                             THEN EnterStep2([d EXCEPT !.max_overshoot_ns = mo2])
                             ELSE [d EXCEPT !.max_overshoot_ns = mo3,
                                            !.current_sleep_ns = U64(ts - mo3)]
       ELSE /\ over = 0
            /\ dp' = EnterStep2(dp)
            /\ UNCHANGED now
    /\ DelayUnchanged

\* step 2: 1 ms sleeps while the longest sleep seen still fits
DelayStep2(over) ==
    /\ dp.pc = "step2"
    /\ IF U64(dp.current_value + dp.max_sleep_ns) < dp.target_value
       THEN /\ now' = Slept(SHORT_SLEEP_NS, over)
            /\ IF now' >= dp.target_value
               THEN dp' = [dp EXCEPT !.pc = "returned"]
               ELSE LET next_sleep_ns == U64(now' - dp.current_value)
                    IN dp' = [dp EXCEPT !.current_value = now',
                                        !.max_sleep_ns = IF next_sleep_ns > @
                                                         THEN next_sleep_ns ELSE @]
       ELSE /\ over = 0
            /\ dp' = [dp EXCEPT !.pc = "step3"]
            /\ UNCHANGED now
    /\ DelayUnchanged

\* step 3: 1 ms sleeps while more than 2 ms are left
DelayStep3(over) ==
    /\ dp.pc = "step3"
    /\ IF U64(dp.current_value + 2 * SHORT_SLEEP_NS) < dp.target_value
       THEN /\ now' = Slept(SHORT_SLEEP_NS, over)
            /\ dp' = [dp EXCEPT !.current_value = now',
                                !.pc = IF now' >= dp.target_value
                                       THEN "returned" ELSE "step3"]
       ELSE /\ over = 0
            /\ dp' = [dp EXCEPT !.pc = "step4"]
            /\ UNCHANGED now
    /\ DelayUnchanged

\* step 4: zero-duration sleeps while more than 1 ms is left
DelayStep4(over) ==
    /\ dp.pc = "step4"
    /\ IF U64(dp.current_value + SHORT_SLEEP_NS) < dp.target_value
       THEN /\ now' = Slept(0, over)
            /\ dp' = [dp EXCEPT !.current_value = now']
       ELSE /\ over = 0
            /\ dp' = [dp EXCEPT !.pc = "step5"]
            /\ UNCHANGED now
    /\ DelayUnchanged

\* step 5: SDL_CPUPauseInstruction until the deadline, then the return
DelayStep5(over) ==
    /\ dp.pc = "step5"
    /\ IF Spins(dp.current_value, dp.target_value)
       THEN /\ now' = Slept(0, over)
            /\ dp' = [dp EXCEPT !.current_value = now']
       ELSE /\ over = 0
            /\ dp' = [dp EXCEPT !.pc = "returned"]
            /\ UNCHANGED now
    /\ DelayUnchanged

DelayInit ==
    /\ Zeroed
    /\ memory = 1 /\ cancelling = FALSE
    /\ now \in EntryTimes
    /\ dp = NotDelaying
    /\ lk = NotLocking
    /\ ticks = NoTicks

DelayNext ==
    \/ \E ns \in Requests : DelayPrecise(ns)
    \/ \E over \in Oversleeps : DelayStep1(over)
    \/ \E over \in Oversleeps : DelayStep2(over)
    \/ \E over \in Oversleeps : DelayStep3(over)
    \/ \E over \in Oversleeps : DelayStep4(over)
    \/ \E over \in Oversleeps : DelayStep5(over)

\* every SDL_SYS_DelayNS call returns and the clock keeps advancing
DelaySpec == DelayInit /\ [][DelayNext]_vars /\ WF_vars(DelayNext)

\* ---- the two locks ----
\* The calls of SDL_LockSpinlock(&data->lock), SDL_LockMutex(data->timermap_lock)
\* and their unlocks in SDL_CreateTimer, SDL_RemoveTimer and SDL_TimerThread, one
\* step per lock call and one per locked section; the lists themselves are left
\* out, what a section finds is an input.
LocksUnchanged == UNCHANGED <<shared, now, worker, workers, th, history, env, dp, ticks>>

\* SDL_UnlockSpinlock and SDL_UnlockMutex (Unlock; UnlockKept is the faulty
\* variant that leaves the lock with its holder)
UnlockKept(h) == h
Unlock(h) == NULL

\* a caller enters SDL_CreateTimer with a callback
LockCreate(t) ==
    /\ lk.pc[t] = "idle"
    /\ lk' = [lk EXCEPT !.pc[t] = "c_init"]
    /\ LocksUnchanged

\* SDL_CheckInitTimers: the first call starts the worker
LockCheckInit(t) ==
    /\ lk.pc[t] = "c_init"
    /\ lk' = [lk EXCEPT !.pc[t] = "c_lock",
                        !.pc[Worker] = IF @ = "none" THEN "w_lock" ELSE @]
    /\ LocksUnchanged

\* the section a thread enters when it gets the spinlock
SpinSection(pc) ==
    CASE pc = "c_lock" -> "c_pop"
      [] pc = "c_lock2" -> "c_push"
      [] pc = "w_lock" -> "w_maint"
      [] OTHER -> "none"

\* SDL_LockSpinlock(&data->lock): returns once the lock is free
LockSpinlock(h) ==
    /\ SpinSection(lk.pc[h]) # "none"
    /\ lk.lock = NULL
    /\ lk' = [lk EXCEPT !.lock = h, !.pc[h] = SpinSection(lk.pc[h])]
    /\ LocksUnchanged

\* "timer = data->freelist; ..." and the unlock; with a record from the freelist
\* (got) the caller goes on into SDL_RemoveTimer(timer->timerID)
LockPop(t, got) ==
    /\ lk.pc[t] = "c_pop"
    /\ lk' = [lk EXCEPT !.lock = Unlock(@),
                        !.pc[t] = IF got THEN "r_lock" ELSE "c_fill",
                        !.inner[t] = got]
    /\ LocksUnchanged

\* a caller enters SDL_RemoveTimer with a non-zero id
LockRemove(t) ==
    /\ lk.pc[t] = "idle"
    /\ lk' = [lk EXCEPT !.pc[t] = "r_lock"]
    /\ LocksUnchanged

\* the section a thread enters when it gets the mutex
MutexSection(pc) ==
    CASE pc = "r_lock" -> "r_search"
      [] pc = "c_lockm" -> "c_link"
      [] OTHER -> "none"

\* SDL_LockMutex(data->timermap_lock): returns once the mutex is free
LockMutex(t) ==
    /\ MutexSection(lk.pc[t]) # "none"
    /\ lk.timermap_lock = NULL
    /\ lk' = [lk EXCEPT !.timermap_lock = t, !.pc[t] = MutexSection(lk.pc[t])]
    /\ LocksUnchanged

\* "Find the timer": the search of timermap and the unlock
LockSearch(t) ==
    /\ lk.pc[t] = "r_search"
    /\ lk' = [lk EXCEPT !.timermap_lock = Unlock(@), !.pc[t] = "r_cancel"]
    /\ LocksUnchanged

\* the canceled flag, SDL_free(entry) and the return: back into SDL_CreateTimer
\* when the call came from there
LockCancel(t) ==
    /\ lk.pc[t] = "r_cancel"
    /\ lk' = [lk EXCEPT !.pc[t] = IF lk.inner[t] THEN "c_fill" ELSE "idle",
                        !.inner[t] = FALSE]
    /\ LocksUnchanged

\* the record's fields and the SDL_malloc of the entry (ok tells whether it
\* succeeds; on failure the call returns 0)
LockFill(t, ok) ==
    /\ lk.pc[t] = "c_fill"
    /\ lk' = [lk EXCEPT !.pc[t] = IF ok THEN "c_lockm" ELSE "idle"]
    /\ LocksUnchanged

\* the entry is prepended to timermap, and the unlock
LockLink(t) ==
    /\ lk.pc[t] = "c_link"
    /\ lk' = [lk EXCEPT !.timermap_lock = Unlock(@), !.pc[t] = "c_lock2"]
    /\ LocksUnchanged

\* the record is prepended to pending, and the unlock
LockPush(t) ==
    /\ lk.pc[t] = "c_push"
    /\ lk' = [lk EXCEPT !.lock = Unlock(@), !.pc[t] = "c_post"]
    /\ LocksUnchanged

\* SDL_SignalSemaphore(data->sem) and the return
LockPost(t) ==
    /\ lk.pc[t] = "c_post"
    /\ lk' = [lk EXCEPT !.pc[t] = "idle"]
    /\ LocksUnchanged

\* "Pending and freelist maintenance", and the unlock
LockMaintain ==
    /\ lk.pc[Worker] = "w_maint"
    /\ lk' = [lk EXCEPT !.lock = Unlock(@), !.pc[Worker] = "w_fire"]
    /\ LocksUnchanged

\* the merge and the fire loop: the worker calls a callback (due) or leaves the
\* loop for the semaphore wait
LockFire(due) ==
    /\ lk.pc[Worker] = "w_fire"
    /\ lk' = [lk EXCEPT !.pc[Worker] = IF due THEN "w_cb" ELSE "w_wait"]
    /\ LocksUnchanged

\* the callback returns
LockCallback ==
    /\ lk.pc[Worker] = "w_cb"
    /\ lk' = [lk EXCEPT !.pc[Worker] = "w_fire"]
    /\ LocksUnchanged

\* SDL_WaitSemaphoreTimeoutNS returns, by a post or by its timeout
LockWait ==
    /\ lk.pc[Worker] = "w_wait"
    /\ lk' = [lk EXCEPT !.pc[Worker] = "w_lock"]
    /\ LocksUnchanged

\* the steps of one thread
LockStep(h) ==
    \/ h # Worker /\ LockCreate(h)
    \/ h # Worker /\ LockCheckInit(h)
    \/ LockSpinlock(h)
    \/ h # Worker /\ \E got \in BOOLEAN : LockPop(h, got)
    \/ h # Worker /\ LockRemove(h)
    \/ h # Worker /\ LockMutex(h)
    \/ h # Worker /\ LockSearch(h)
    \/ h # Worker /\ LockCancel(h)
    \/ h # Worker /\ \E ok \in BOOLEAN : LockFill(h, ok)
    \/ h # Worker /\ LockLink(h)
    \/ h # Worker /\ LockPush(h)
    \/ h # Worker /\ LockPost(h)
    \/ h = Worker /\ LockMaintain
    \/ h = Worker /\ \E due \in BOOLEAN : LockFire(due)
    \/ h = Worker /\ LockCallback
    \/ h = Worker /\ LockWait

LockInit ==
    /\ Zeroed
    /\ memory = NRec /\ cancelling = TRUE
    /\ now = 0
    /\ dp = NotDelaying
    /\ lk = NotLocking
    /\ ticks = NoTicks

LockNext == \E h \in Holders : LockStep(h)

\* every thread that can take a step takes one; a thread that finds its lock
\* free again and again gets it
LockSpec == LockInit /\ [][LockNext]_vars /\ \A h \in Holders : SF_vars(LockStep(h))

\* ---- the tick origin and the timer resolution ----
\* SDL_InitTicks, SDL_QuitTicks and SDL_SetSystemTimerResolutionMS in a build with
\* HAVE_TIME_BEGIN_PERIOD, called from one thread. Uint64 is WordBits wide, a
\* second has MsPerSecond milliseconds of NsPerMs nanoseconds, the hint is -1
\* when unset or empty and else the number SDL_atoi reads from it.
NsPerSecond == MsPerSecond * NsPerMs
Freqs == 1..MaxFreq
Hints == -1..MaxPeriod

TicksUnchanged == UNCHANGED <<shared, now, worker, workers, th, history, env, dp, lk>>

\* SDL_CalculateGCD
RECURSIVE GCD(_, _)
GCD(a, b) == IF b = 0 THEN a ELSE GCD(b, a % b)

\* timeEndPeriod(p): the request for p, if one is outstanding, is revoked
\* (EndPeriod; EndPeriodSkipped is the faulty variant that revokes nothing)
EndPeriodSkipped(os, p) == os
EndPeriod(os, p) ==
    IF \E i \in 1..Len(os) : os[i] = p
    THEN LET i == CHOOSE j \in 1..Len(os) : os[j] = p /\ \A k \in 1..(j - 1) : os[k] # p
         IN SubSeq(os, 1, i - 1) \o SubSeq(os, i + 1, Len(os))
    ELSE os

\* timeBeginPeriod(p)
BeginPeriod(os, p) == Append(os, p)

\* SDL_SetSystemTimerResolutionMS(period)
SetSystemTimerResolutionMS(k, period) ==
    LET ended == IF period # k.timer_period /\ k.timer_period # 0
                 THEN EndPeriod(k.os, k.timer_period) ELSE k.os
        begun == IF period # k.timer_period /\ period # 0
                 THEN BeginPeriod(ended, period) ELSE ended
    IN [k EXCEPT !.timer_period = period,
                 !.os = begun,
                 !.applied = period,
                 !.ended = IF period # k.timer_period /\ k.timer_period # 0
                           THEN Min(@ + 1, 2) ELSE @]

\* SDL_TimerResolutionChanged(userdata, name, oldValue, hint); changed is
\* "oldValue != hint"
TimerResolutionChanged(k, changed, hint) ==
    LET period == IF hint # -1 THEN hint ELSE 1
    IN IF period # 0 \/ changed THEN SetSystemTimerResolutionMS(k, period) ELSE k

\* "tick_start = SDL_GetPerformanceCounter(); if (!tick_start) --tick_start;"
\* (TickStart; TickStartOne is the faulty variant that makes a zero origin 1)
TickStartOne(c) == IF c = 0 THEN 1 ELSE c
TickStart(c) == IF c = 0 THEN (c - 1) % Modulus ELSE c

\* the performance counter advances
PerfAdvance ==
    /\ ticks.counter < Modulus - 1
    /\ ticks' = [ticks EXCEPT !.counter = @ + 1, !.last = "perf"]
    /\ TicksUnchanged

\* the body of SDL_InitTicks: nothing when tick_start is set; else the hint
\* callback, the scalers and the origin
Initialized(k, atOnce) ==
    IF k.tick_start # 0
    THEN k
    ELSE LET h == [k EXCEPT !.hooked = TRUE]
             r == IF atOnce THEN TimerResolutionChanged(h, FALSE, k.hint) ELSE h
             gns == GCD(NsPerSecond, k.freq)
             gms == GCD(MsPerSecond, k.freq)
         IN [r EXCEPT !.tick_numerator_ns = NsPerSecond \div gns,
                      !.tick_denominator_ns = k.freq \div gns,
                      !.tick_numerator_ms = MsPerSecond \div gms,
                      !.tick_denominator_ms = k.freq \div gms,
                      !.tick_start = TickStart(k.counter)]

\* SDL_InitTicks; atOnce tells whether SDL_AddHintCallback calls the callback
\* before it returns, with the hint's value as oldValue and as hint
InitTicks(atOnce) ==
    /\ ticks' = [Initialized(ticks, atOnce) EXCEPT !.last = "init"]
    /\ TicksUnchanged

\* "starting_value = (SDL_GetPerformanceCounter() - tick_start);
\*  value = (starting_value * tick_numerator); value /= tick_denominator;"
\* in Uint64
Scaled(k, numerator, denominator, call) ==
    LET starting_value == (k.counter - k.tick_start) % Modulus
        value == (starting_value * numerator) % Modulus
    IN [k EXCEPT !.starting_value = starting_value,
                 !.value = value,
                 !.result = value \div denominator,
                 !.last = call]

\* SDL_GetTicksNS: SDL_InitTicks when tick_start is 0, then the conversion
GetTicksNS(atOnce) ==
    /\ LET k == Initialized(ticks, atOnce)
       IN ticks' = Scaled(k, k.tick_numerator_ns, k.tick_denominator_ns, "ns")
    /\ TicksUnchanged

\* SDL_GetTicks: the same in milliseconds
GetTicks(atOnce) ==
    /\ LET k == Initialized(ticks, atOnce)
       IN ticks' = Scaled(k, k.tick_numerator_ms, k.tick_denominator_ms, "ms")
    /\ TicksUnchanged

\* SDL_QuitTicks
QuitTicks ==
    /\ ticks' = [SetSystemTimerResolutionMS([ticks EXCEPT !.hooked = FALSE], 0)
                   EXCEPT !.tick_start = 0, !.last = "quit"]
    /\ TicksUnchanged

\* the application sets SDL_HINT_TIMER_RESOLUTION to another value: the hint
\* subsystem calls the callback while it is registered
SetHint(v) ==
    /\ v # ticks.hint
    /\ ticks' = IF ticks.hooked
                THEN [TimerResolutionChanged([ticks EXCEPT !.hint = v], TRUE, v)
                        EXCEPT !.last = "hint"]
                ELSE [ticks EXCEPT !.hint = v, !.last = "hint"]
    /\ TicksUnchanged

TickInit ==
    /\ Zeroed
    /\ memory = NRec /\ cancelling = FALSE
    /\ now = 0
    /\ dp = NotDelaying
    /\ lk = NotLocking
    /\ \E f \in Freqs : ticks = [NoTicks EXCEPT !.freq = f]

TickNext ==
    \/ PerfAdvance
    \/ \E atOnce \in BOOLEAN : InitTicks(atOnce)
    \/ QuitTicks
    \/ \E v \in Hints : SetHint(v)
    \/ \E atOnce \in BOOLEAN : GetTicksNS(atOnce)
    \/ \E atOnce \in BOOLEAN : GetTicks(atOnce)

TickSpec == TickInit /\ [][TickNext]_vars

\* ---- properties ----
\* the worker enters a callback in this step
CallBegins == wpc = "call" /\ wpc' = "incb"

\* the worker detaches the head of timers in this step
Detaches == wpc = "fire" /\ timers # NULL /\ timers' # timers

\* an application's SDL_RemoveTimer call returns in this step of thread t
RemoveReturns(t) == th[t].pc \in {"r_find", "r_get", "r_set"} /\ ~th[t].inner
                    /\ th'[t].pc = "idle"

\* the records on the shared freelist or on the worker's local freelist (whose
\* head and tail are stale between the splice and their reset)
Retired == Range(Chain(freelist))
           \cup (IF wpc = "merge" THEN {} ELSE Range(LocalFree))

\* no allocated record holds a deadline that wrapped past the word size
NoWrap == \A r \in alloc : scheduled[r] >= interval[r]

Before(s, a, b) == \E i, k \in 1..Len(s) : i < k /\ s[i] = a /\ s[k] = b

\* C1, as stated: once SDL_RemoveTimer(id) has returned true, no callback
\* invocation for id begins, in any interleaving with the worker.
C1_NoCallAfterRemove ==
    [][CallBegins => timerID[current] \notin removedOK]_vars

\* C1, amended: once SDL_RemoveTimer(id) has returned true, the worker never
\* again passes the canceled check for id; the only invocation that can begin
\* after the return is one whose check was passed before the flag was set.
C1_NoCheckPassedAfterRemove ==
    [][(wpc = "fire" /\ wpc' = "call") => timerID[current'] \notin removedOK]_vars

\* a removed timer's record was detached, seen canceled and recycled
C1_Witness ==
    \E r \in Range(LocalFree) : timerID[r] \in removedOK /\ timerID[r] \notin stopped

\* C2: after SDL_RemoveTimer(id) returned true at most one more invocation for id
\* starts, and when the worker next detaches the record it sees canceled, does
\* not invoke the callback and recycles the record.
C2_AtMostOneLateCall ==
    /\ [](\A id \in Ids : late[id] <= 1)
    /\ [][(Detaches /\ timerID[timers] \in removedOK)
            => (wpc' = "fire" /\ freelist_tail' = timers /\ canceled'[timers]
                /\ firedSched' = firedSched)]_vars

\* a periodic timer was invoked once after its removal returned, rescheduled
\* itself, and was recycled at its next detach
C2_Witness ==
    \E r \in Range(LocalFree) :
        late[timerID[r]] = 1 /\ timerID[r] \notin stopped /\ interval[r] = 1

\* C3, as stated: of two invoked timers the one with the smaller deadline is
\* invoked first (checked for deadlines that did not wrap).
C3_FiresInDeadlineOrder ==
    [][(CallBegins /\ NoWrap) => \A j \in Ids \ {timerID[current]} :
                        firedSched[j] <= scheduled[current]]_vars

\* C3, amended: when a callback is invoked no timer in the sorted list has an
\* earlier deadline, so two timers that are in the list together fire in
\* deadline order; a timer still on pending is not ordered against them.
C3_HeadIsEarliest ==
    wpc \in {"call", "incb"}
        => \A r \in Range(Chain(timers)) : scheduled[current] <= scheduled[r]

\* a timer is invoked while one with a later deadline waits in the list
C3_Witness ==
    wpc = "call" /\ timers # NULL /\ scheduled[timers] > scheduled[current]

\* C4, as stated: timers with equal deadlines fire in registration order, also
\* when both were published before one intake (checked for deadlines that did
\* not wrap).
C4_TiesInRegistrationOrder ==
    [][(CallBegins /\ NoWrap) => \A j \in Ids : j > timerID[current]
                        => firedSched[j] # scheduled[current]]_vars

\* C4, amended: timers with equal deadlines fire in the order the worker
\* inserted them into the sorted list (a record goes after the records of equal
\* deadline already there); records taken in by one intake are inserted newest
\* first, so they fire in reverse registration order.
C4_TiesInInsertionOrder ==
    [][LET old == Chain(timers)
           new == ChainN(next', timers', NRec + 1)
           pend == Chain(wpending)
       IN \A a, b \in Recs :
            (a # b /\ a \in Range(new) /\ b \in Range(new)
                   /\ scheduled'[a] = scheduled'[b])
            => /\ Before(old, a, b) => Before(new, a, b)
               /\ (a \in Range(old) /\ b \notin Range(old)) => Before(new, a, b)
               /\ (wpc = "merge" /\ Before(pend, a, b)) => Before(new, a, b)]_vars

\* two timers of equal deadline queued with the later registered one first
C4_Witness ==
    /\ timers # NULL /\ next[timers] # NULL
    /\ scheduled[timers] = scheduled[next[timers]]
    /\ timerID[timers] > timerID[next[timers]]

\* C5, in the form a finite run refutes: a timer whose id was returned and never
\* passed to SDL_RemoveTimer is not recycled before its callback has run (ids are
\* never reused, so a recycled timer is never invoked later).
C5_NeverRetiredUninvoked ==
    \A r \in Retired :
        (timerID[r] \in returned /\ timerID[r] \notin removeCalled)
            => firedSched[timerID[r]] # -1

\* C6: a timer whose callback has returned 0 is never invoked again.
C6_StoppedNeverCalled ==
    wpc = "incb" => timerID[current] \notin stopped

\* a callback runs after an earlier timer has stopped
C6_Witness ==
    wpc = "incb" /\ \E i \in stopped : i < timerID[current]

\* C7: a callback is invoked only in a pass whose tick has reached the deadline.
C7_NeverEarly ==
    wpc \in {"call", "incb"} => tick >= scheduled[current]

\* a timer with a deadline in the future at creation is invoked
C7_Witness ==
    wpc = "incb" /\ scheduled[current] > 0 /\ interval[current] > 0

\* C8: the deadline stored at creation is at least creation time plus interval.
C8_DeadlineNotEarlier ==
    [][\A t \in Threads :
         (th[t].pc = "c_fill" /\ th'[t].pc = "c_entry")
            => scheduled'[th[t].timer] >= now + interval'[th[t].timer]]_vars

\* C9: SDL_RemoveTimer(id) returns true iff an entry was found and its record
\* went from not canceled to canceled; never for an id already removed or
\* canceled when the call was made, and at most once per id.
C9_RemoveResult ==
    [][\A t \in Threads :
         RemoveReturns(t)
            => /\ th'[t].ret = "true" <=> (th[t].pc = "r_set" /\ ~canceled[th[t].ent])
               /\ th'[t].ret = "true" => (~th[t].dead /\ th[t].id \notin removedOK)]_vars

\* C10: SDL_RemoveTimer(0) fails with the invalid-parameter error and changes
\* nothing else.
C10_RemoveZero ==
    [][\A t \in Threads :
         (th[t].pc = "r_find" /\ ~th[t].inner /\ th[t].id = 0 /\ th'[t] # th[t])
            => /\ th'[t] = [Idle EXCEPT !.ret = "InvalidParam"]
               /\ UNCHANGED <<timermap, canceled, pending, timers, freelist, next,
                              sem, timerID, interval, scheduled>>]_vars

\* SDL_RemoveTimer(0) has failed while a timer is registered and queued
C10_Witness ==
    /\ \E t \in Threads : th[t].ret = "InvalidParam"
    /\ timermap # <<>> /\ timers # NULL

\* ---- properties of the life cycle ----
\* thread t's SDL_CreateTimer call returns 0 in this step
CreateFails(t) ==
    /\ th[t].pc \in {"idle", "c_entry"} /\ th'[t] # th[t]
    /\ th'[t].pc = "idle" /\ th'[t].ret = "zero"

\* the records linked into one of the three lists
Listed(p, tm, fl, nx) ==
    Range(ChainN(nx, p, NRec + 1)) \cup Range(ChainN(nx, tm, NRec + 1))
        \cup Range(ChainN(nx, fl, NRec + 1))

C12_NoPartialState ==
    [][\A t \in Threads :
         CreateFails(t)
            => /\ UNCHANGED <<timermap, pending, timers, sem>>
               /\ th[t].popped =>
                    th[t].timer \in Range(ChainN(next', freelist', NRec + 1))]_vars

\* C12, amended: a failed SDL_CreateTimer returns 0 and its failing step leaves
\* the registry, the three lists and the semaphore untouched; the new id has no
\* registry entry and its record is in no list and is freed, so a record taken
\* from the freelist is not put back.
C12_FailureFreesRecord ==
    [][\A t \in Threads :
         CreateFails(t)
            => /\ UNCHANGED <<timermap, pending, timers, freelist, next, sem>>
               /\ th[t].pc = "c_entry"
                    => /\ th[t].timer \notin alloc'
                       /\ th[t].timer \notin Listed(pending', timers', freelist', next')
                       /\ EntryIndex(th[t].id) = 0]_vars

\* a call that reused a recycled record has failed on the entry allocation
C12_Witness ==
    \E t \in Threads : th[t].ret = "zero" /\ th[t].popped /\ alloc = {}

\* thread t's SDL_QuitTimers call, made while initialized, returns in this step
QuitReturns(t) ==
    th[t].pc = "q_join" /\ th'[t].pc = "idle"

\* C13, as stated: once SDL_QuitTimers has returned, no callback of a timer whose
\* creation had returned before that is invoked any more, a later
\* SDL_InitTimers included.
C13_NoCallAfterQuit ==
    wpc = "incb" => timerID[current] \notin quitDone

\* C14, as stated: when SDL_QuitTimers returns, after creations and removals
\* that had all returned before it was called, pending, timers, freelist and
\* the registry are empty and every record is freed.
C14_QuitFreesAll ==
    [][\A t \in Threads :
         QuitReturns(t)
            => /\ pending' = NULL /\ timers' = NULL /\ freelist' = NULL
               /\ timermap' = <<>>
               /\ alloc' = {}]_vars

C16_ReturnsAfterDeadline ==
    dp.pc = "returned" => now >= dp.entry + dp.ns

\* C17: SDL_DelayPrecise(ns) returns, and each of its loops is left, whatever
\* the sleeps take.
C17_Terminates ==
    /\ <>(dp.pc = "returned")
    /\ (dp.pc = "step1") ~> (dp.pc # "step1")
    /\ (dp.pc = "step2") ~> (dp.pc # "step2")
    /\ (dp.pc = "step3") ~> (dp.pc # "step3")
    /\ (dp.pc = "step4") ~> (dp.pc # "step4")
    /\ (dp.pc = "step5") ~> (dp.pc # "step5")

\* a long delay that went through step 1 with an oversleep and through the
\* spin of step 5 has returned
C17_Witness ==
    /\ dp.pc = "returned"
    /\ dp.ns \div 10 >= 10 * SHORT_SLEEP_NS
    /\ dp.max_overshoot_ns > 0
    /\ dp.current_value = dp.target_value
    /\ dp.max_sleep_ns > SHORT_SLEEP_NS

\* ---- properties of record reuse ----
\* thread t's own SDL_RemoveTimer(id) call sets the canceled flag in this step
SetsCanceled(t) ==
    th[t].pc = "r_set" /\ th'[t].pc # "r_set" /\ ~th[t].inner

\* C18, as stated: when SDL_RemoveTimer(X) sets a canceled flag and returns true,
\* the record it marks carries id X.
C18_CancelsOwnIdOnly ==
    [][\A t \in Threads : SetsCanceled(t) => timerID[th[t].ent] = th[t].id]_vars

\* C19: registry entries with distinct ids point to distinct records, and when
\* SDL_CreateTimer inserts the entry of a reused record no entry points to that
\* record any more.
C19_NoAliasedRecord ==
    /\ [](\A i, j \in 1..Len(timermap) :
            i # j => /\ timermap[i].timerID # timermap[j].timerID
                     /\ timermap[i].timer # timermap[j].timer)
    /\ [][\A t \in Threads :
            (th[t].pc = "c_entry" /\ th'[t].pc = "c_pub")
                => \A i \in 1..Len(timermap) : timermap[i].timer # th[t].timer]_vars

\* the entry of a reused record has been inserted under its new id, after a
\* removal that returned true
C19_Witness ==
    \E t \in Threads :
        /\ th[t].pc = "c_pub" /\ th[t].popped
        /\ EntryIndex(timerID[th[t].timer]) # 0
        /\ removedOK # {}

\* records in the hands of an SDL_CreateTimer call that has not yet pushed them
\* on pending
Constructing ==
    {th[t].timer : t \in {u \in Threads :
        th[u].pc \in {"c_fill", "c_entry", "c_pub"} \/ th[u].inner}}

\* the places a record can be linked or held: pending, timers, freelist, and the
\* worker's detached pending chain, current record and local freelist
Places ==
    <<Chain(pending), Chain(timers), Chain(freelist), Chain(wpending),
      IF wpc \in {"call", "incb"} THEN <<current>> ELSE <<>>,
      IF wpc = "merge" THEN <<>> ELSE LocalFree>>

\* C20: every allocated record that no SDL_CreateTimer call is still constructing
\* is in exactly one of pending, timers, freelist and the worker's local holdings,
\* and exactly once; a record under construction is in none.
C20_OnePlacePerRecord ==
    /\ \A r \in alloc \ Constructing :
          Cardinality({k \in 1..6 : r \in Range(Places[k])}) = 1
    /\ \A r \in Constructing : \A k \in 1..6 : r \notin Range(Places[k])
    /\ \A k \in 1..6 : Len(Places[k]) = Cardinality(Range(Places[k]))
    /\ \A k \in 1..6 : Range(Places[k]) \subseteq alloc

\* two records are linked in timers while the worker holds nothing, and a
\* recycled record sits on the freelist while another is in timers
C20_Witness ==
    \/ Len(Chain(timers)) = 2 /\ wpc = "wait"
    \/ /\ freelist # NULL /\ timers # NULL /\ pending = NULL /\ wpc = "fire"

\* ---- properties of the worker's list and of the wakeup ----
\* the sequence of records s is in non-decreasing order of sch
Sorted(s, sch) == \A i, k \in 1..Len(s) : i < k => sch[s[i]] <= sch[s[k]]

\* C21: the timers list is sorted by non-decreasing scheduled at every state, and
\* a step that inserts a record (merge or reinsertion) puts it after every
\* record of equal deadline that was in the list before the step.
C21_SortedTiesLast ==
    /\ [](Sorted(Chain(timers), scheduled))
    /\ [][LET old == Chain(timers)
              new == ChainN(next', timers', NRec + 1)
          IN \A a \in Range(new) \ Range(old) : \A b \in Range(old) \cap Range(new) :
                scheduled'[a] = scheduled'[b] => Before(new, b, a)]_vars

\* a periodic timer was reinserted behind a timer of equal deadline that has not
\* fired yet
C21_Witness ==
    /\ timers # NULL /\ next[timers] # NULL
    /\ scheduled[timers] = scheduled[next[timers]]
    /\ firedSched[timerID[next[timers]]] # -1
    /\ firedSched[timerID[timers]] = -1

\* the records on pending whose SDL_CreateTimer call has posted the semaphore
PostedPending ==
    Range(Chain(pending)) \ {th[t].timer : t \in {u \in Threads : th[u].pc = "c_post"}}

\* C22: no wakeup is lost: a record on pending whose creation has posted is
\* eventually in the timers list, and while such a record is on pending a worker
\* in the semaphore wait has a token to take.
C22_NoLostWakeup ==
    /\ \A r \in Recs :
          (r \in PostedPending) ~> (r \in Range(Chain(timers)))
    /\ [](wpc = "sem" /\ PostedPending # {} => sem > 0)

\* the worker is in the wait with the unbounded timeout while a posted record is
\* on pending
C22_Witness ==
    /\ wpc = "sem" /\ wake = MaxTime + 1 /\ timers = NULL
    /\ PostedPending # {}

\* C23, as stated: at every state the semaphore count is at least the number of
\* records on pending that were posted and not yet drained.
C23_SemCoversPending ==
    sem >= Cardinality(PostedPending)

\* C23, amended: the semaphore count is at least the number of posted records on
\* pending at every state but those where the worker has returned from the wait
\* and has not yet drained pending.
C23_SemCoversPendingWhileWaiting ==
    wpc # "maint" => sem >= Cardinality(PostedPending)

\* two posted records are on pending while the worker is in the wait
C23_Witness ==
    wpc = "sem" /\ Cardinality(PostedPending) = 2 /\ sem >= 2

\* the callback of the worker's current record returns in this step
CallReturns == wpc = "incb" /\ wpc' = "fire"

\* C24: a callback that returns a positive interval leaves its record in timers
\* with that interval and the deadline tick + interval, tick being sampled once
\* per fire pass; a callback that returns 0 leaves its record canceled at the tail
\* of the worker's local freelist.
C24_RescheduleFromTick ==
    /\ [][CallReturns =>
            IF timerID[current] \in stopped'
            THEN /\ canceled'[current]
                 /\ freelist_tail' = current
                 /\ freelist_head' = (IF freelist_head = NULL THEN current
                                                              ELSE freelist_head)
                 /\ timers' = timers
                 /\ interval'[current] = interval[current]
            ELSE /\ interval'[current] > 0
                 /\ scheduled'[current] = (tick + interval'[current]) % Modulus
                 /\ current \in Range(ChainN(next', timers', NRec + 1))
                 /\ canceled'[current] = canceled[current]
                 /\ UNCHANGED <<freelist_head, freelist_tail>>]_vars
    /\ [][(wpc \in {"fire", "call", "incb"} /\ wpc' \in {"fire", "call", "incb"})
            => tick' = tick]_vars
    /\ [][(wpc = "merge" /\ wpc' = "fire") => tick' = now]_vars

\* a periodic timer has been rescheduled from a tick that is neither the time
\* its callback returned nor its previous deadline
C24_Witness ==
    /\ wpc = "fire"
    /\ \E r \in Range(Chain(timers)) :
          /\ firedSched[timerID[r]] # -1
          /\ scheduled[r] = tick + interval[r]
          /\ \/ now > tick
             \/ firedSched[timerID[r]] < tick

\* C25, as stated: when the worker ends a pass whose maintenance came after
\* a successful SDL_RemoveTimer(id), the record of id is no longer in timers,
\* whatever its deadline.
C25_ReclaimedNextPass ==
    wpc \in {"wait", "sem"}
        => \A r \in Range(Chain(timers)) : timerID[r] \notin passRemoved

\* C25, amended: a canceled record stays in timers until its deadline; in the
\* pass that finds it due at the head of timers it is moved to the worker's
\* local freelist without a callback invocation, so after a pass whose
\* maintenance came after the removal only records that are not yet due remain.
C25_ReclaimedWhenDue ==
    /\ [](wpc = "wait" =>
            \A r \in Range(Chain(timers)) :
                timerID[r] \in passRemoved => tick < scheduled[r])
    /\ [][(Detaches /\ canceled[timers])
            => /\ wpc' = "fire"
               /\ timers \in Range(ChainTo(freelist_head', freelist_tail', NRec + 1))
               /\ freelist_tail' = timers
               /\ UNCHANGED firedSched]_vars

\* a removed timer that never fired is on the worker's local freelist after the
\* pass that found it due
C25_Witness ==
    /\ wpc = "wait"
    /\ \E r \in Range(LocalFree) :
          timerID[r] \in passRemoved /\ firedSched[timerID[r]] = -1

\* C26: a record rescheduled by its callback's positive return gets a deadline
\* strictly greater than the tick of the fire pass, so the pass does not fire it
\* again.
C26_RescheduledAfterTick ==
    [][(CallReturns /\ current \in Range(ChainN(next', timers', NRec + 1)))
            => tick < scheduled'[current]]_vars

\* C26: every fire pass ends: the worker reaches its semaphore wait.
C26_PassTerminates ==
    (wpc = "fire") ~> (wpc = "wait")

\* the locks thread h holds
Held(h) ==
    {l \in {"lock", "timermap_lock"} : lk[l] = h}

EntersStep2 == dp.pc # "step2" /\ dp'.pc = "step2"

\* C28, as stated: step 2 starts with max_sleep_ns = SHORT_SLEEP_NS +
\* min(max_overshoot_ns, SHORT_SLEEP_NS), whatever step 1 left in max_overshoot_ns.
C28_MaxSleepAddsMin ==
    [][EntersStep2 =>
         dp'.max_sleep_ns = SHORT_SLEEP_NS + Min(dp'.max_overshoot_ns, SHORT_SLEEP_NS)]_vars

\* C28, amended: step 2 starts with max_sleep_ns = SHORT_SLEEP_NS + max_overshoot_ns
\* when max_overshoot_ns is below SHORT_SLEEP_NS and with SHORT_SLEEP_NS otherwise,
\* and while step 2 runs max_sleep_ns never decreases.
C28_MaxSleepAddsSmallOvershoot ==
    /\ [][EntersStep2 =>
            dp'.max_sleep_ns = IF dp'.max_overshoot_ns < SHORT_SLEEP_NS
                               THEN SHORT_SLEEP_NS + dp'.max_overshoot_ns
                               ELSE SHORT_SLEEP_NS]_vars
    /\ [][(dp.pc = "step2" /\ dp'.pc = "step2") =>
            /\ dp'.max_sleep_ns >= dp.max_sleep_ns
            /\ dp'.max_overshoot_ns = dp.max_overshoot_ns]_vars

\* step 2 has raised max_sleep_ns after step 1 left an overshoot of at least
\* SHORT_SLEEP_NS
C28_Witness ==
    /\ dp.pc = "step2"
    /\ dp.max_overshoot_ns >= SHORT_SLEEP_NS
    /\ dp.max_sleep_ns > SHORT_SLEEP_NS

\* C29: at most one timeBeginPeriod request is outstanding, it is the request
\* for the period last given to SDL_SetSystemTimerResolutionMS (none when that
\* is 0), and after SDL_QuitTicks none is outstanding.
C29_OneRequestOutstanding ==
    /\ Len(ticks.os) <= 1
    /\ ticks.os = (IF ticks.applied = 0 THEN <<>> ELSE <<ticks.applied>>)
    /\ ticks.timer_period = ticks.applied
    /\ ticks.last = "quit" => ticks.os = <<>>

\* a request has been revoked and the request for another period installed
C29_Witness ==
    /\ ticks.ended >= 1
    /\ ticks.os = <<MaxPeriod>>
    /\ ticks.last = "hint"

\* SDL_InitTicks sets the origin in this step
SetsOrigin == ticks.tick_start = 0 /\ ticks'.last = "init"

\* C30, as stated: SDL_InitTicks records tick_start = max(counter, 1).
C30_OriginIsMaxOfCounterAndOne ==
    [][SetsOrigin =>
         ticks'.tick_start = (IF ticks.counter < 1 THEN 1 ELSE ticks.counter)]_vars

\* C30, amended: SDL_InitTicks records the counter as tick_start, and the largest
\* Uint64 when the counter is 0; tick_start is not zero after SDL_InitTicks; a
\* call with tick_start set changes neither tick_start nor the scalers.
C30_OriginNeverZero ==
    /\ [][SetsOrigin =>
            ticks'.tick_start = (IF ticks.counter = 0 THEN Modulus - 1
                                                     ELSE ticks.counter)]_vars
    /\ [](ticks.last = "init" => ticks.tick_start # 0)
    /\ [][(ticks.tick_start # 0 /\ ticks'.last = "init") =>
            ticks' = [ticks EXCEPT !.last = "init"]]_vars

\* SDL_InitTicks has been called a second time, with the origin taken from a
\* counter at 0
C30_Witness ==
    /\ ticks.last = "init"
    /\ ticks.counter > 0
    /\ ticks.tick_start = Modulus - 1

\* the numerator the last SDL_GetTicksNS or SDL_GetTicks call multiplied by
Numerator ==
    IF ticks.last = "ns" THEN ticks.tick_numerator_ns ELSE ticks.tick_numerator_ms

\* C31: in SDL_GetTicksNS and SDL_GetTicks the product of the tick difference
\* and the numerator does not wrap, and the asserted "value >= starting_value"
\* holds, on every call.
C31_ProductNeverWraps ==
    ticks.last \in {"ns", "ms"} =>
        /\ ticks.starting_value * Numerator < Modulus
        /\ ticks.value >= ticks.starting_value

====
